---- MODULE Spec2Model ----
(***************************************************************************)
(* UCB1 bandit arm allocation (moe/bandit/ucb1.py).                        *)
(*                                                                         *)
(* The state is one history (arms_sampled: arm name -> SampleArm), the     *)
(* outcome of the last call made on it, and the number of times the caller *)
(* has pulled each arm since the history was handed over.                  *)
(*                                                                         *)
(* Arm names are the integers of ArmNames; their integer order stands for  *)
(* the order Python gives the name strings when it compares tuples.        *)
(* Floating-point payoffs are fixed-point numbers with Scale units to 1.   *)
(* Probabilities are exact fractions [num, den].                           *)
(***************************************************************************)
EXTENDS Integers, Sequences, FiniteSets

VARIABLES
    arms_sampled,               \* the history: [names -> [win, loss, total]]
    pulled,                     \* [names -> pulls made by the caller so far]
    op,                         \* the last call: "idle" or a method name
    raised,                     \* the exception the last call raised, or NoError
    names,                      \* the frozenset the last call computed
    ucb_payoff_arm_name_list,   \* the (payoff, name) list the last call built, <<>> if none
    allocation                  \* the mapping allocate_arms returned

vars == <<arms_sampled, pulled, op, raised, names, ucb_payoff_arm_name_list, allocation>>

----------------------------------------------------------------------------
\* Bounds of the model.

\* largest win and loss count of an arm
MaxWin == 1

\* largest total of an arm
MaxTotal == 3

\* the arm names a history may hold
ArmNames == {1, 2, 3}

----------------------------------------------------------------------------
\* Data.

SampleArm == [win : 0..MaxWin, loss : 0..MaxWin, total : 0..MaxTotal]

\* every dictionary of (name, SampleArm) pairs, the empty one included
Histories == UNION {[S -> SampleArm] : S \in SUBSET ArmNames}

\* the orders in which a dictionary with keys S may be iterated
RECURSIVE IterationOrders(_)
IterationOrders(S) ==
    IF S = {} THEN {<<>>}
    ELSE UNION {{Append(o, a) : o \in IterationOrders(S \ {a})} : a \in S}

NoError == "none"
ArmsSampledEmpty == "ValueError: arms_sampled is empty!"
SampleArmsEmpty == "ValueError: sample_arms are empty!"
MathDomainError == "ValueError: math domain error"
FloatDivisionByZero == "ZeroDivisionError: float division by zero"

Zero == [num |-> 0, den |-> 1]
One == [num |-> 1, den |-> 1]

----------------------------------------------------------------------------
\* Arithmetic.

\* fixed-point unit of a payoff
Scale == 10 ^ 4

\* floor(ln(k) * 10^6) for k = 1, 2, ...
LnTable == <<0, 693147, 1098612, 1386294, 1609437, 1791759, 1945910, 2079441,
             2197224, 2302585, 2397895, 2484906, 2564949, 2639057, 2708050, 2772588,
             2833213, 2890371, 2944438, 2995732, 3044522, 3091042, 3135494, 3178053>>

\* math.log(k) in units of 10^-6, k >= 1
Log(k) == LnTable[k]

RECURSIVE SqrtSearch(_, _, _)
SqrtSearch(x, lo, hi) ==
    IF lo >= hi THEN lo
    ELSE LET mid == (lo + hi + 1) \div 2
         IN  IF mid * mid <= x THEN SqrtSearch(x, mid, hi) ELSE SqrtSearch(x, lo, mid - 1)

\* floor of the square root of x, 0 <= x < 2^31
ISqrt(x) == SqrtSearch(x, 0, 46340)

\* math.sqrt(2.0 * l / d) in units of 1/Scale, where l is a logarithm in units of 10^-6
SqrtTwoLogOver(l, d) == ISqrt((2 * l * 100) \div d)

\* the largest number_sampled of a history
MaxNumberSampled == Cardinality(ArmNames) * MaxTotal

RECURSIVE BonusRow(_, _)
BonusRow(l, d) ==
    IF d = 0 THEN <<>> ELSE Append(BonusRow(l, d - 1), SqrtTwoLogOver(l, d))

RECURSIVE BonusRows(_)
BonusRows(k) ==
    IF k = 0 THEN <<>> ELSE Append(BonusRows(k - 1), BonusRow(Log(k), MaxNumberSampled))

\* BonusTable[total][number_sampled] = math.sqrt(2.0 * math.log(total) / number_sampled),
\* computed once for every total and number_sampled a history can hold
BonusTable == BonusRows(MaxTotal)

RECURSIVE SumTotals(_, _)
SumTotals(arms, S) ==
    IF S = {} THEN 0
    ELSE LET a == CHOOSE x \in S : TRUE
         IN  arms[a].total + SumTotals(arms, S \ {a})

----------------------------------------------------------------------------
\* UCB1.

\* the condition inverted: the sampled arms are returned
get_unsampled_arm_names_inverted(arms, order) ==
    IF DOMAIN arms = {}
    THEN [raised |-> ArmsSampledEmpty, value |-> {}]
    ELSE [raised |-> NoError,
          value  |-> {order[i] : i \in {k \in DOMAIN order : arms[order[k]].total # 0}}]

\* off by one: an arm pulled once still counts as unsampled
get_unsampled_arm_names_le_one(arms, order) ==
    IF DOMAIN arms = {}
    THEN [raised |-> ArmsSampledEmpty, value |-> {}]
    ELSE [raised |-> NoError,
          value  |-> {order[i] : i \in {k \in DOMAIN order : arms[order[k]].total <= 1}}]

\* an arm counts as unsampled when it has no recorded outcome, whatever its total
get_unsampled_arm_names_no_outcome(arms, order) ==
    IF DOMAIN arms = {}
    THEN [raised |-> ArmsSampledEmpty, value |-> {}]
    ELSE [raised |-> NoError,
          value  |-> {order[i] : i \in {k \in DOMAIN order :
                        arms[order[k]].win = 0 /\ arms[order[k]].loss = 0}}]

\* the check for an empty dictionary left out
get_unsampled_arm_names_no_check(arms, order) ==
    [raised |-> NoError,
     value  |-> {order[i] : i \in {k \in DOMAIN order : arms[order[k]].total = 0}}]

\* The set of unsampled arm names, or the error of an empty dictionary.
get_unsampled_arm_names(arms, order) ==
    IF DOMAIN arms = {}
    THEN [raised |-> ArmsSampledEmpty, value |-> {}]
    ELSE [raised |-> NoError,
          value  |-> {order[i] : i \in {k \in DOMAIN order : arms[order[k]].total = 0}}]

\* numpy.float64(win - loss) / total if total > 0 else 0
avg_payoff(sampled_arm) ==
    IF sampled_arm.total > 0
    THEN ((sampled_arm.win - sampled_arm.loss) * Scale) \div sampled_arm.total
    ELSE 0

\* the exception the payoff expression raises for one arm, if any:
\* math.log(0) has no value, and a float division by 0 has none
ucb_payoff_error(sampled_arm, number_sampled) ==
    IF sampled_arm.total = 0 THEN MathDomainError
    ELSE IF number_sampled = 0 THEN FloatDivisionByZero
    ELSE NoError

\* avg_payoff + math.sqrt(2.0 * math.log(sampled_arm.total) / number_sampled)
ucb_payoff(sampled_arm, number_sampled) ==
    avg_payoff(sampled_arm) + BonusTable[sampled_arm.total][number_sampled]

\* the payoff the documentation of allocate_arms gives:
\* r_j = mu + sqrt(2 ln(n) / n_j), n the overall number of pulls, n_j the pulls of arm j
documented_ucb_payoff(sampled_arm, number_sampled) ==
    avg_payoff(sampled_arm) + SqrtTwoLogOver(Log(number_sampled), sampled_arm.total)

\* the tuples compared by name first
TupleLeq_name_first(s, t) == s[2] < t[2] \/ (s[2] = t[2] /\ s[1] <= t[1])

\* Python's order on (payoff, name) tuples
TupleLeq(s, t) == s[1] < t[1] \/ (s[1] = t[1] /\ s[2] <= t[2])

\* max(list) of a non-empty list of (payoff, name) tuples
TupleMax(list) ==
    list[CHOOSE i \in DOMAIN list : \A j \in DOMAIN list : TupleLeq(list[j], list[i])]

\* the list of (ucb_payoff, arm_name) tuples the loop over the items appends, in order
RECURSIVE PayoffList(_, _, _, _)
PayoffList(arms, order, number_sampled, i) ==
    IF i = 0 THEN <<>>
    ELSE Append(PayoffList(arms, order, number_sampled, i - 1),
                <<ucb_payoff(arms[order[i]], number_sampled), order[i]>>)

\* the filter keeps the tuples equal to the max tuple, not those with its payoff
winning_arm_name_list_max_tuple(list) ==
    LET best == TupleMax(list)
    IN  {list[i][2] : i \in {k \in DOMAIN list : list[k] = best}}

\* the names of the tuples of the list whose payoff is the best payoff
winning_arm_name_list(list) ==
    LET best_payoff == TupleMax(list)[1]
    IN  {list[i][2] : i \in {k \in DOMAIN list : list[k][1] = best_payoff}}

\* the unsampled arms are not returned first
get_winning_arm_names_no_priority(arms, order) ==
    IF DOMAIN arms = {}
    THEN [raised |-> ArmsSampledEmpty, value |-> {}, list |-> <<>>]
    ELSE
    LET number_sampled == SumTotals(arms, DOMAIN arms)
        failing == {i \in DOMAIN order : ucb_payoff_error(arms[order[i]], number_sampled) # NoError}
        first == CHOOSE i \in failing : \A j \in failing : i <= j
        list == PayoffList(arms, order, number_sampled, Len(order))
    IN  IF failing # {}
        THEN [raised |-> ucb_payoff_error(arms[order[first]], number_sampled),
              value |-> {}, list |-> <<>>]
        ELSE [raised |-> NoError, value |-> winning_arm_name_list(list), list |-> list]

\* The set of winning arm names, the list of payoffs built on the way, or an error.
get_winning_arm_names(arms, order) ==
    IF DOMAIN arms = {}
    THEN [raised |-> ArmsSampledEmpty, value |-> {}, list |-> <<>>]
    ELSE
    LET unsampled_arm_names == get_unsampled_arm_names(arms, order)
        number_sampled == SumTotals(arms, DOMAIN arms)
        failing == {i \in DOMAIN order : ucb_payoff_error(arms[order[i]], number_sampled) # NoError}
        first == CHOOSE i \in failing : \A j \in failing : i <= j
        list == PayoffList(arms, order, number_sampled, Len(order))
    IN  IF unsampled_arm_names.raised # NoError
        THEN [raised |-> unsampled_arm_names.raised, value |-> {}, list |-> <<>>]
        ELSE IF unsampled_arm_names.value # {}
        THEN [raised |-> NoError, value |-> unsampled_arm_names.value, list |-> <<>>]
        ELSE IF failing # {}
        THEN [raised |-> ucb_payoff_error(arms[order[first]], number_sampled),
              value |-> {}, list |-> <<>>]
        ELSE [raised |-> NoError, value |-> winning_arm_name_list(list), list |-> list]

\* moe.bandit.utils.get_equal_arm_allocations: 1 / (number of winners) for each
\* winner, 0 for every other arm
get_equal_arm_allocations(arms, winning_arm_names) ==
    IF DOMAIN arms = {}
    THEN [raised |-> ArmsSampledEmpty, value |-> <<>>]
    ELSE IF winning_arm_names = {}
    THEN [raised |-> FloatDivisionByZero, value |-> <<>>]
    ELSE [raised |-> NoError,
          value  |-> [a \in DOMAIN arms |->
                        IF a \in winning_arm_names
                        THEN [num |-> 1, den |-> Cardinality(winning_arm_names)]
                        ELSE Zero]]

\* the unsampled names are handed to get_equal_arm_allocations, not the winning names
allocate_arms_unsampled(arms, order) ==
    IF DOMAIN arms = {}
    THEN [raised |-> SampleArmsEmpty, value |-> <<>>, winning |-> {}, list |-> <<>>]
    ELSE
    LET w == get_unsampled_arm_names(arms, order)
        e == get_equal_arm_allocations(arms, w.value)
    IN  IF w.raised # NoError
        THEN [raised |-> w.raised, value |-> <<>>, winning |-> {}, list |-> <<>>]
        ELSE [raised |-> e.raised, value |-> e.value, winning |-> w.value, list |-> <<>>]

\* The allocation of every arm, the winning set it was built from, or an error.
allocate_arms(arms, order) ==
    IF DOMAIN arms = {}
    THEN [raised |-> SampleArmsEmpty, value |-> <<>>, winning |-> {}, list |-> <<>>]
    ELSE
    LET w == get_winning_arm_names(arms, order)
        e == get_equal_arm_allocations(arms, w.value)
    IN  IF w.raised # NoError
        THEN [raised |-> w.raised, value |-> <<>>, winning |-> {}, list |-> <<>>]
        ELSE [raised |-> e.raised, value |-> e.value, winning |-> w.value, list |-> w.list]

----------------------------------------------------------------------------
\* The state machine: one call is made on the history at hand; after
\* allocate_arms the caller may pull an arm, which gives the next history.
\* The computation is pure and each history is a fresh snapshot, so a call
\* starts from "idle" and its outcome stays until the caller's next pull.

Init ==
    /\ arms_sampled \in Histories
    /\ pulled = [a \in DOMAIN arms_sampled |-> 0]
    /\ op = "idle"
    /\ raised = NoError
    /\ names = {}
    /\ ucb_payoff_arm_name_list = <<>>
    /\ allocation = <<>>

GetUnsampledArmNames ==
    /\ op = "idle"
    /\ \E order \in IterationOrders(DOMAIN arms_sampled) :
        \E r \in {get_unsampled_arm_names(arms_sampled, order)} :
            /\ op' = "get_unsampled_arm_names"
            /\ raised' = r.raised
            /\ names' = r.value
            /\ ucb_payoff_arm_name_list' = <<>>
            /\ allocation' = <<>>
            /\ UNCHANGED <<arms_sampled, pulled>>

GetWinningArmNames ==
    /\ op = "idle"
    /\ \E order \in IterationOrders(DOMAIN arms_sampled) :
        \E r \in {get_winning_arm_names(arms_sampled, order)} :
            /\ op' = "get_winning_arm_names"
            /\ raised' = r.raised
            /\ names' = r.value
            /\ ucb_payoff_arm_name_list' = r.list
            /\ allocation' = <<>>
            /\ UNCHANGED <<arms_sampled, pulled>>

AllocateArms ==
    /\ op = "idle"
    /\ \E order \in IterationOrders(DOMAIN arms_sampled) :
        \E r \in {allocate_arms(arms_sampled, order)} :
            /\ op' = "allocate_arms"
            /\ raised' = r.raised
            /\ names' = r.winning
            /\ ucb_payoff_arm_name_list' = r.list
            /\ allocation' = r.value
            /\ UNCHANGED <<arms_sampled, pulled>>

\* The caller pulls one arm the last allocation gives non-zero probability and
\* adds the trial to that arm's total.
Pull ==
    /\ op = "allocate_arms"
    /\ raised = NoError
    /\ \E a \in DOMAIN allocation :
        /\ allocation[a].num > 0
        /\ arms_sampled[a].total < MaxTotal
        /\ arms_sampled' = [arms_sampled EXCEPT ![a].total = @ + 1]
        /\ pulled' = [pulled EXCEPT ![a] = @ + 1]
    /\ op' = "idle"
    /\ raised' = NoError
    /\ names' = {}
    /\ ucb_payoff_arm_name_list' = <<>>
    /\ allocation' = <<>>

\* one call of one of the three methods on any history
Next ==
    \/ GetUnsampledArmNames
    \/ GetWinningArmNames
    \/ AllocateArms

Spec == Init /\ [][Next]_vars

\* the caller's decision cycles from any history: allocate, pull, allocate, ...
NextCycle ==
    \/ AllocateArms
    \/ Pull

SpecCycle == Init /\ [][NextCycle]_vars

----------------------------------------------------------------------------
\* State functions the properties are stated with.

\* the arms of the history with total == 0
UnsampledArms == {a \in DOMAIN arms_sampled : arms_sampled[a].total = 0}

\* the overall number of pulls the history records
NumberSampled == SumTotals(arms_sampled, DOMAIN arms_sampled)

\* the arms that had total == 0 before the caller's first pull
InitiallyUnsampled == {a \in DOMAIN arms_sampled : arms_sampled[a].total = pulled[a]}

RECURSIVE SumPulled(_)
SumPulled(S) ==
    IF S = {} THEN 0
    ELSE LET a == CHOOSE x \in S : TRUE IN pulled[a] + SumPulled(S \ {a})

\* the decision cycles completed so far
Cycles == SumPulled(DOMAIN pulled)

\* the last call was method o and it returned a value
Returned(o) == op = o /\ raised = NoError

IsEmptyHistoryError(e) == e \in {ArmsSampledEmpty, SampleArmsEmpty}

\* the sum of the probabilities of the arms of S, as a fraction
RECURSIVE SumAllocation(_)
SumAllocation(S) ==
    IF S = {} THEN Zero
    ELSE LET a == CHOOSE x \in S : TRUE
             rest == SumAllocation(S \ {a})
         IN  [num |-> allocation[a].num * rest.den + rest.num * allocation[a].den,
              den |-> allocation[a].den * rest.den]

\* arms i and j have the same average payoff (win - loss) / total, both totals >= 1
SameAverage(i, j) ==
    (arms_sampled[i].win - arms_sampled[i].loss) * arms_sampled[j].total
        = (arms_sampled[j].win - arms_sampled[j].loss) * arms_sampled[i].total

----------------------------------------------------------------------------
\* C1: when every arm has total >= 1, get_winning_arm_names returns exactly the
\* arms whose score (win - loss)/total + sqrt(2 ln(n) / total) is maximal, with
\* n the sum of the totals: the logarithm is of n, the divisor is the arm's total.
C1_WinnersMaximiseDocumentedScore ==
    (Returned("get_winning_arm_names") /\ UnsampledArms = {}) =>
        names = {a \in DOMAIN arms_sampled :
                    \A b \in DOMAIN arms_sampled :
                        documented_ucb_payoff(arms_sampled[b], NumberSampled)
                            <= documented_ucb_payoff(arms_sampled[a], NumberSampled)}

\* C2: with at least one arm of total == 0, allocate_arms gives probability 1/k
\* to each of the k arms with total == 0 and probability 0 to every other arm.
C2_UnsampledArmsShareAllocation ==
    (op = "allocate_arms" /\ UnsampledArms # {}) =>
        /\ raised = NoError
        /\ DOMAIN allocation = DOMAIN arms_sampled
        /\ \A a \in DOMAIN arms_sampled :
            allocation[a] = IF arms_sampled[a].total = 0
                            THEN [num |-> 1, den |-> Cardinality(UnsampledArms)]
                            ELSE Zero

C2_Witness ==
    /\ Returned("allocate_arms")
    /\ Cardinality(UnsampledArms) = 2
    /\ \E a \in DOMAIN arms_sampled :
        /\ arms_sampled[a].total = MaxTotal
        /\ arms_sampled[a].win > arms_sampled[a].loss
        /\ allocation[a].num = 0

\* C3: on an empty history each of the three methods raises the empty-history
\* error and returns nothing; on a non-empty history none of them raises it.
C3_EmptyHistoryError ==
    op # "idle" =>
        /\ IsEmptyHistoryError(raised) <=> DOMAIN arms_sampled = {}
        /\ DOMAIN arms_sampled = {} =>
            /\ names = {}
            /\ allocation = <<>>
            /\ raised = IF op = "allocate_arms" THEN SampleArmsEmpty ELSE ArmsSampledEmpty

C3_Witness ==
    /\ op = "get_unsampled_arm_names"
    /\ DOMAIN arms_sampled = {}
    /\ raised = ArmsSampledEmpty

\* C4: on a non-empty history allocate_arms returns a mapping whose keys are the
\* arm names of the history; the winning set W is a non-empty subset of them,
\* every arm of W has probability 1/|W|, every other arm 0, and the sum is 1.
C4_AllocationIsNormalised ==
    (op = "allocate_arms" /\ DOMAIN arms_sampled # {}) =>
        /\ raised = NoError
        /\ names # {}
        /\ names \subseteq DOMAIN arms_sampled
        /\ DOMAIN allocation = DOMAIN arms_sampled
        /\ \A a \in DOMAIN arms_sampled :
            allocation[a] = IF a \in names
                            THEN [num |-> 1, den |-> Cardinality(names)]
                            ELSE Zero
        /\ SumAllocation(DOMAIN allocation).num = SumAllocation(DOMAIN allocation).den

C4_Witness ==
    /\ Returned("allocate_arms")
    /\ UnsampledArms = {}
    /\ Cardinality(DOMAIN arms_sampled) = 3
    /\ Cardinality(names) = 2

\* C5: with at least two arms, all of total >= 1, an arm j that has the same
\* average payoff as an arm i of smaller total has a strictly smaller score, is
\* not in the winning set and gets probability 0 from allocate_arms.
C5_MoreSampledArmLoses ==
    (Returned("allocate_arms") /\ UnsampledArms = {}) =>
        \A i, j \in DOMAIN arms_sampled :
            (SameAverage(i, j) /\ arms_sampled[i].total < arms_sampled[j].total) =>
                /\ ucb_payoff(arms_sampled[i], NumberSampled)
                     > ucb_payoff(arms_sampled[j], NumberSampled)
                /\ j \notin names
                /\ allocation[j] = Zero

\* C6: on a non-empty history with non-negative counts allocate_arms raises
\* nothing, and whenever the scores were computed every arm had total >= 1 and
\* the overall count was >= 1; the empty-history error is its only failure.
C6_NoFailureOnValidInput ==
    op = "allocate_arms" =>
        /\ DOMAIN arms_sampled # {} => raised = NoError
        /\ raised # NoError => IsEmptyHistoryError(raised)
        /\ ucb_payoff_arm_name_list # <<>> =>
            /\ \A a \in DOMAIN arms_sampled : arms_sampled[a].total >= 1
            /\ NumberSampled >= 1

C6_Witness ==
    /\ Returned("allocate_arms")
    /\ Len(ucb_payoff_arm_name_list) = 3
    /\ \E a \in DOMAIN arms_sampled :
        arms_sampled[a].total = 1 /\ arms_sampled[a].win < arms_sampled[a].loss

\* C7: two arms with the same (win, loss, total) get the same probability from
\* allocate_arms, with and without unsampled arms.
C7_Symmetry ==
    Returned("allocate_arms") =>
        \A a, b \in DOMAIN arms_sampled :
            arms_sampled[a] = arms_sampled[b] => allocation[a] = allocation[b]

C7_Witness ==
    /\ Returned("allocate_arms")
    /\ UnsampledArms = {}
    /\ \E a, b, c \in DOMAIN arms_sampled :
        /\ a # b
        /\ arms_sampled[a] = arms_sampled[b]
        /\ arms_sampled[c] # arms_sampled[a]
        /\ allocation[a].num > 0
        /\ allocation[c].num = 0

\* C8: with exactly one arm, allocate_arms gives that arm probability 1, for any
\* total >= 1 (total == 1 included) and any win and loss, and for total == 0.
C8_SingleArm ==
    (op = "allocate_arms" /\ Cardinality(DOMAIN arms_sampled) = 1) =>
        /\ raised = NoError
        /\ \A a \in DOMAIN arms_sampled : allocation[a] = One

C8_Witness ==
    /\ Returned("allocate_arms")
    /\ \E a \in ArmNames :
        /\ DOMAIN arms_sampled = {a}
        /\ arms_sampled[a].total = 1
        /\ arms_sampled[a].win < arms_sampled[a].loss
        /\ allocation[a] = One

\* C9: when every arm has total >= 1, get_winning_arm_names returns every arm
\* whose computed score equals the largest computed score and no other arm,
\* whatever the order of the iteration: the names of the tuples decide nothing.
C9_TiesIndependentOfOrder ==
    (Returned("get_winning_arm_names") /\ UnsampledArms = {}) =>
        /\ Len(ucb_payoff_arm_name_list) = Cardinality(DOMAIN arms_sampled)
        /\ \A i \in DOMAIN ucb_payoff_arm_name_list :
            ucb_payoff_arm_name_list[i][1]
                = ucb_payoff(arms_sampled[ucb_payoff_arm_name_list[i][2]], NumberSampled)
        /\ names = {a \in DOMAIN arms_sampled :
                        \A b \in DOMAIN arms_sampled :
                            ucb_payoff(arms_sampled[b], NumberSampled)
                                <= ucb_payoff(arms_sampled[a], NumberSampled)}

C9_Witness ==
    /\ Returned("get_winning_arm_names")
    /\ Len(ucb_payoff_arm_name_list) = 3
    /\ Cardinality(names) = 2
    /\ ucb_payoff_arm_name_list[1][2] > ucb_payoff_arm_name_list[2][2]
    /\ ucb_payoff_arm_name_list[1][1] = ucb_payoff_arm_name_list[2][1]
    /\ ucb_payoff_arm_name_list[3][1] < ucb_payoff_arm_name_list[1][1]
    /\ ucb_payoff_arm_name_list[3][2] > ucb_payoff_arm_name_list[1][2]

\* C10: over the caller's decision cycles, while an arm has total == 0 only arms
\* that had total == 0 are pulled, each once; the scores are never computed
\* while an arm has total == 0; and with k arms unsampled at the start every arm
\* has total >= 1 after exactly k cycles, not before.
C10_ExplorationFirst ==
    /\ ucb_payoff_arm_name_list # <<>> => UnsampledArms = {}
    /\ Cycles <= Cardinality(InitiallyUnsampled) =>
        /\ \A a \in DOMAIN pulled :
            /\ pulled[a] <= 1
            /\ pulled[a] = 1 => arms_sampled[a].total = 1
        /\ Cardinality(UnsampledArms) = Cardinality(InitiallyUnsampled) - Cycles
    /\ Cycles >= Cardinality(InitiallyUnsampled) => UnsampledArms = {}

C10_Witness ==
    /\ Returned("allocate_arms")
    /\ Cardinality(DOMAIN arms_sampled) = 3
    /\ Cardinality(InitiallyUnsampled) = 2
    /\ Cycles = 2
    /\ ucb_payoff_arm_name_list # <<>>

====
